---- MODULE Spec2Model ----
(***************************************************************************)
(* A model of sdk/include/locks.hh: FlagLock (a futex-word mutex),         *)
(* TicketLock (a two-counter FIFO mutex) and LockGuard (the RAII wrapper). *)
(* Every atomic access of the source is one step of one thread; the futex  *)
(* wait/notify_all primitive and the Timeout cursor are modelled from      *)
(* their documented contract.                                              *)
(***************************************************************************)
EXTENDS Integers, Sequences, FiniteSets, TLC

\* ------------------------------------------------------------------ bounds
NThreads == 3
MaxTicks == 2
\* TicketLock's counters are uint32_t; the model keeps TicketBits bits of them,
\* more threads than which never contend (as 2^32 threads never do).
TicketBits == 3
\* Increments each thread of the stress scenario performs.
Iterations == 2
\* Guards a thread creates, and acquisitions made through one guard.
NGuards == 3
MaxAcquires == 2

Threads == 1..NThreads
Guards == 1..NGuards
Modulus == 2 ^ TicketBits

\* --------------------------------------------------------- FlagLock::Flag
Unlocked == 0
Locked == 1
LockedWithWaiters == 2
Flag == {Unlocked, Locked, LockedWithWaiters}

\* Timeout{0}: the cursor try_lock() builds; Timeout{UnlimitedTimeout}: the
\* cursor lock() builds, which wait never decrements.
ZeroTimeout == 0
UnlimitedTimeout == MaxTicks + 1

VARIABLES
  \* FlagLock
  flag,        \* the lock word
  pc,          \* each thread's position in try_lock / unlock
  old,         \* try_lock's local `old`
  remaining,   \* timeout->remaining of the call in progress
  op,          \* which entry point the thread last called
  result,      \* what that call returned: "pending", "true", "false", "none"
  first,       \* the word as the call's first compare-and-set found it
  waited,      \* whether the call invoked flag.wait
  \* TicketLock
  current,         \* the ticket being served
  next,            \* the next ticket to hand out
  tpc,             \* each thread's position in lock / unlock
  ticket,          \* lock's local `ticket`
  currentSnapshot, \* lock's and unlock's local `currentSnapshot`
  counter,         \* the shared counter the critical section increments
  tmp,             \* the value a thread read from the counter
  iters,           \* increments a thread has completed
  order,           \* threads holding a ticket not yet released, oldest first
  wrapLead,        \* wraps of next to zero not yet followed by current
  \* LockGuard
  gstate,          \* "unborn", "live" or "dead"
  wrappedLock,     \* "lock" or "null"
  isOwned,
  inCall,          \* the guard operation in progress: <<kind, guard>>
  origin,          \* the guard this one was move-constructed from, or 0
  inherited,       \* the ownership flag the source had before the move
  acquisitions,    \* successful acquisitions made through each guard
  unlocks,         \* unlock() calls made through each guard
  dtorUnlocks,     \* unlock() calls made by each guard's destructor
  \* NoLock (the class has no fields; these record its callers)
  inside,          \* whether a thread is between a NoLock acquire and unlock()
  nop,             \* the NoLock member a thread last called
  nbudget,         \* the budget of the cursor it passed, if any
  nresult          \* what the call returned: "none", "void", "true", "false"

flagVars == <<flag, pc, old, remaining, op, result, first, waited>>
ticketVars == <<current, next, tpc, ticket, currentSnapshot, counter, tmp, iters,
                order, wrapLead>>
guardVars == <<gstate, wrappedLock, isOwned, inCall, origin, inherited,
               acquisitions, unlocks, dtorUnlocks>>
noLockVars == <<inside, nop, nbudget, nresult>>
vars == <<flagVars, ticketVars, guardVars, noLockVars>>

\* ------------------------------------------------------- the wait primitive
\* futex wait blocks iff the word still holds the expected value.
WaitBlocks(word, expected) == word = expected

\* notify_all: every thread blocked on the word becomes runnable.
NotifyAll(p) == [t \in Threads |-> IF p[t] = "blocked" THEN "woken" ELSE p[t]]

\* ------------------------------------------------------------- FlagLock
\* The value the first compare-and-set installs (line 63).
FastDesired == Locked

\* A retry loop that acquires into plain Locked.
SlowDesiredLocked == Locked

\* The value the retry loop's acquire installs (line 84).
SlowDesired == LockedWithWaiters

\* The expected value handed to flag.wait (line 79).
WaitExpected(t) == old[t]

\* A wake decision that wakes after every holding.
UnlockWakesAlways(previous) == previous # Unlocked

\* unlock's wake decision (line 120).
UnlockWakes(previous) == previous = LockedWithWaiters

\* A first attempt that marks a held word as having waiters when it fails.
try_lock_marking(t, ticks, name) ==
  /\ pc[t] \in {"idle", "failed"}
  /\ remaining' = [remaining EXCEPT ![t] = ticks]
  /\ op' = [op EXCEPT ![t] = name]
  /\ first' = [first EXCEPT ![t] = flag]
  /\ waited' = [waited EXCEPT ![t] = FALSE]
  /\ IF flag = Unlocked
       THEN /\ flag' = FastDesired
            /\ old' = [old EXCEPT ![t] = Unlocked]
            /\ pc' = [pc EXCEPT ![t] = "held"]
            /\ result' = [result EXCEPT ![t] = "true"]
       ELSE /\ flag' = LockedWithWaiters
            /\ old' = [old EXCEPT ![t] = flag]
            /\ pc' = [pc EXCEPT ![t] = "loop"]
            /\ result' = [result EXCEPT ![t] = "pending"]

\* try_lock(Timeout*), lines 60-66: the cursor is set up by the caller and the
\* first compare-and-set runs.
try_lock(t, ticks, name) ==
  /\ pc[t] \in {"idle", "failed"}
  /\ remaining' = [remaining EXCEPT ![t] = ticks]
  /\ op' = [op EXCEPT ![t] = name]
  /\ first' = [first EXCEPT ![t] = flag]
  /\ waited' = [waited EXCEPT ![t] = FALSE]
  /\ IF flag = Unlocked
       THEN /\ flag' = FastDesired
            /\ old' = [old EXCEPT ![t] = Unlocked]
            /\ pc' = [pc EXCEPT ![t] = "held"]
            /\ result' = [result EXCEPT ![t] = "true"]
       ELSE /\ flag' = flag
            /\ old' = [old EXCEPT ![t] = flag]
            /\ pc' = [pc EXCEPT ![t] = "loop"]
            /\ result' = [result EXCEPT ![t] = "pending"]

\* A probe that hands try_lock a budget it may spend waiting.
try_lock_now_blocking(t) == try_lock(t, MaxTicks, "try_lock")

\* A lock() whose cursor is finite and can run out.
lock_with_budget(t) == try_lock(t, MaxTicks, "lock")

\* lock(), lines 104-108.
lock(t) == try_lock(t, UnlimitedTimeout, "lock")

\* try_lock(), lines 95-99.
try_lock_now(t) == try_lock(t, ZeroTimeout, "try_lock")

\* A thread calls lock() on the FlagLock directly.
Lock(t) ==
  /\ lock(t)
  /\ UNCHANGED <<ticketVars, guardVars, noLockVars>>

\* A thread calls try_lock() on the FlagLock directly.
TryLock(t) ==
  /\ try_lock_now(t)
  /\ UNCHANGED <<ticketVars, guardVars, noLockVars>>

\* A thread calls try_lock(&timeout) with a finite positive budget.
TryLockTimeout(t) ==
  /\ \E ticks \in 1..MaxTicks : try_lock(t, ticks, "try_lock_timeout")
  /\ UNCHANGED <<ticketVars, guardVars, noLockVars>>

\* A loop that gives up whatever budget is left.
LoopHeadGivesUp(t) ==
  /\ pc[t] = "loop"
  /\ pc' = [pc EXCEPT ![t] = "failed"]
  /\ result' = [result EXCEPT ![t] = "false"]
  /\ UNCHANGED <<flag, old, remaining, op, first, waited>>
  /\ UNCHANGED <<ticketVars, guardVars, noLockVars>>

\* while (timeout->remaining > 0), line 67, and return false, line 89.
LoopHead(t) ==
  /\ pc[t] = "loop"
  /\ IF remaining[t] > 0
       THEN /\ pc' = [pc EXCEPT ![t] = "upgrade"]
            /\ result' = result
       ELSE /\ pc' = [pc EXCEPT ![t] = "failed"]
            /\ result' = [result EXCEPT ![t] = "false"]
  /\ UNCHANGED <<flag, old, remaining, op, first, waited>>
  /\ UNCHANGED <<ticketVars, guardVars, noLockVars>>

\* An upgrade that stores LockedWithWaiters without comparing.
UpgradeBlind(t) ==
  /\ pc[t] = "upgrade"
  /\ flag' = LockedWithWaiters
  /\ old' = old
  /\ pc' = [pc EXCEPT ![t] = "wait"]
  /\ UNCHANGED <<remaining, op, result, first, waited>>
  /\ UNCHANGED <<ticketVars, guardVars, noLockVars>>

\* Lines 70-75: mark the word as having waiters unless it already is.
Upgrade(t) ==
  /\ pc[t] = "upgrade"
  /\ IF old[t] # LockedWithWaiters
       THEN IF flag = old[t]
              THEN flag' = LockedWithWaiters /\ old' = old
              ELSE flag' = flag /\ old' = [old EXCEPT ![t] = flag]
       ELSE flag' = flag /\ old' = old
  /\ pc' = [pc EXCEPT ![t] = "wait"]
  /\ UNCHANGED <<remaining, op, result, first, waited>>
  /\ UNCHANGED <<ticketVars, guardVars, noLockVars>>

\* Lines 76-80: flag.wait(timeout, old) unless old is Unlocked.
WaitCall(t) ==
  /\ pc[t] = "wait"
  /\ IF old[t] # Unlocked
       THEN /\ waited' = [waited EXCEPT ![t] = TRUE]
            /\ pc' = [pc EXCEPT ![t] =
                 IF WaitBlocks(flag, WaitExpected(t)) THEN "blocked" ELSE "acquire"]
       ELSE /\ waited' = waited
            /\ pc' = [pc EXCEPT ![t] = "acquire"]
  /\ UNCHANGED <<flag, old, remaining, op, result, first>>
  /\ UNCHANGED <<ticketVars, guardVars, noLockVars>>

\* flag.wait returns after a notify; the time spent blocked is taken off a
\* finite cursor.
WaitReturn(t) ==
  /\ pc[t] = "woken"
  /\ \E elapsed \in 0..MaxTicks :
       /\ elapsed <= remaining[t]
       /\ remaining' = [remaining EXCEPT ![t] =
            IF @ = UnlimitedTimeout THEN @ ELSE @ - elapsed]
  /\ pc' = [pc EXCEPT ![t] = "acquire"]
  /\ UNCHANGED <<flag, old, op, result, first, waited>>
  /\ UNCHANGED <<ticketVars, guardVars, noLockVars>>

\* flag.wait returns because a finite cursor ran out.
WaitTimeout(t) ==
  /\ pc[t] = "blocked"
  /\ remaining[t] # UnlimitedTimeout
  /\ remaining' = [remaining EXCEPT ![t] = 0]
  /\ pc' = [pc EXCEPT ![t] = "acquire"]
  /\ UNCHANGED <<flag, old, op, result, first, waited>>
  /\ UNCHANGED <<ticketVars, guardVars, noLockVars>>

\* An acquire that takes returning from wait as being granted the lock.
AcquireUnconditionally(t) ==
  /\ pc[t] = "acquire"
  /\ flag' = SlowDesired
  /\ old' = [old EXCEPT ![t] = Unlocked]
  /\ pc' = [pc EXCEPT ![t] = "held"]
  /\ result' = [result EXCEPT ![t] = "true"]
  /\ UNCHANGED <<remaining, op, first, waited>>
  /\ UNCHANGED <<ticketVars, guardVars, noLockVars>>

\* Lines 81-87: old = Unlocked; compare-and-set to LockedWithWaiters.
Acquire(t) ==
  /\ pc[t] = "acquire"
  /\ IF flag = Unlocked
       THEN /\ flag' = SlowDesired
            /\ old' = [old EXCEPT ![t] = Unlocked]
            /\ pc' = [pc EXCEPT ![t] = "held"]
            /\ result' = [result EXCEPT ![t] = "true"]
       ELSE /\ flag' = flag
            /\ old' = [old EXCEPT ![t] = flag]
            /\ pc' = [pc EXCEPT ![t] = "loop"]
            /\ result' = result
  /\ UNCHANGED <<remaining, op, first, waited>>
  /\ UNCHANGED <<ticketVars, guardVars, noLockVars>>

\* An unlock that releases only a word it finds Locked.
unlock_only_locked(t) ==
  /\ flag' = IF flag = Locked THEN Unlocked ELSE flag
  /\ pc' = [pc EXCEPT ![t] = IF UnlockWakes(flag) THEN "notify" ELSE "idle"]
  /\ remaining' = [remaining EXCEPT ![t] = 0]
  /\ op' = [op EXCEPT ![t] = "none"]
  /\ result' = [result EXCEPT ![t] = "none"]
  /\ first' = [first EXCEPT ![t] = Unlocked]
  /\ waited' = [waited EXCEPT ![t] = FALSE]
  /\ old' = old

\* unlock(), lines 117-120: exchange the word to Unlocked. The record of the
\* acquiring call ends with the holding it began.
unlock(t) ==
  /\ flag' = Unlocked
  /\ pc' = [pc EXCEPT ![t] = IF UnlockWakes(flag) THEN "notify" ELSE "idle"]
  /\ remaining' = [remaining EXCEPT ![t] = 0]
  /\ op' = [op EXCEPT ![t] = "none"]
  /\ result' = [result EXCEPT ![t] = "none"]
  /\ first' = [first EXCEPT ![t] = Unlocked]
  /\ waited' = [waited EXCEPT ![t] = FALSE]
  /\ old' = old

\* A thread that holds the FlagLock calls unlock().
Unlock(t) ==
  /\ pc[t] = "held"
  /\ unlock(t)
  /\ UNCHANGED <<ticketVars, guardVars, noLockVars>>

\* unlock(), line 123: flag.notify_all().
Notify(t) ==
  /\ pc[t] = "notify"
  /\ pc' = [NotifyAll(pc) EXCEPT ![t] = "idle"]
  /\ UNCHANGED <<flag, old, remaining, op, result, first, waited>>
  /\ UNCHANGED <<ticketVars, guardVars, noLockVars>>

InitFlag ==
  /\ flag = Unlocked
  /\ pc = [t \in Threads |-> "idle"]
  /\ old = [t \in Threads |-> Unlocked]
  /\ remaining = [t \in Threads |-> 0]
  /\ op = [t \in Threads |-> "none"]
  /\ result = [t \in Threads |-> "none"]
  /\ first = [t \in Threads |-> Unlocked]
  /\ waited = [t \in Threads |-> FALSE]

\* ----------------------------------------------------------- TicketLock
\* A counter that sticks at its maximum instead of wrapping.
IncrementSaturating(v) == IF v = Modulus - 1 THEN v ELSE v + 1

\* uint32_t arithmetic on the counters: ++ wraps at the counter's width.
Increment(v) == (v + 1) % Modulus

\* An admission test that lets a later ticket in while an earlier one is served.
AdmitsEarly(snapshot, myTicket) == snapshot <= myTicket

\* lock's admission test (line 157).
Admits(snapshot, myTicket) == snapshot = myTicket

\* A wake decision that needs two tickets beyond the one just released.
ShouldNotifyLate(nextValue, snapshot) == nextValue > snapshot + 1

\* unlock's wake decision (line 173).
ShouldNotify(nextValue, snapshot) == nextValue > snapshot

\* current.notify_all(): every thread blocked on current re-reads it.
TicketNotifyAll(p) == [t \in Threads |-> IF p[t] = "blocked" THEN "read" ELSE p[t]]

Remove(seq, t) == SelectSeq(seq, LAMBDA x : x # t)

\* A ticket read from next without the increment.
TakeTicketNoIncrement(t) ==
  /\ tpc[t] = "idle"
  /\ ticket' = [ticket EXCEPT ![t] = next]
  /\ order' = Append(order, t)
  /\ tpc' = [tpc EXCEPT ![t] = "read"]
  /\ UNCHANGED <<current, next, wrapLead, currentSnapshot, counter, tmp, iters>>
  /\ UNCHANGED <<flagVars, guardVars, noLockVars>>

\* lock(), line 153: ticket = next++.
TakeTicket(t) ==
  /\ tpc[t] = "idle"
  /\ ticket' = [ticket EXCEPT ![t] = next]
  /\ next' = Increment(next)
  /\ wrapLead' = IF Increment(next) < next THEN wrapLead + 1 ELSE wrapLead
  /\ order' = Append(order, t)
  /\ tpc' = [tpc EXCEPT ![t] = "read"]
  /\ UNCHANGED <<current, currentSnapshot, counter, tmp, iters>>
  /\ UNCHANGED <<flagVars, guardVars, noLockVars>>

\* lock(), lines 156-160: read current and return if it is this ticket.
ReadCurrent(t) ==
  /\ tpc[t] = "read"
  /\ IF Admits(current, ticket[t])
       THEN /\ tpc' = [tpc EXCEPT ![t] = "cs"]
            /\ currentSnapshot' = [currentSnapshot EXCEPT ![t] = 0]
       ELSE /\ tpc' = [tpc EXCEPT ![t] = "wait"]
            /\ currentSnapshot' = [currentSnapshot EXCEPT ![t] = current]
  /\ UNCHANGED <<current, next, ticket, counter, tmp, iters, order, wrapLead>>
  /\ UNCHANGED <<flagVars, guardVars, noLockVars>>

\* A wait whose return is taken as admission, without reading current again.
TicketWaitGrants(t) ==
  /\ tpc[t] = "wait"
  /\ tpc' = [tpc EXCEPT ![t] =
       IF WaitBlocks(current, currentSnapshot[t]) THEN "blocked" ELSE "cs"]
  /\ UNCHANGED <<current, next, ticket, currentSnapshot, counter, tmp, iters,
                 order, wrapLead>>
  /\ UNCHANGED <<flagVars, guardVars, noLockVars>>

\* lock(), line 161: current.wait(currentSnapshot).
TicketWait(t) ==
  /\ tpc[t] = "wait"
  /\ tpc' = [tpc EXCEPT ![t] =
       IF WaitBlocks(current, currentSnapshot[t]) THEN "blocked" ELSE "read"]
  /\ UNCHANGED <<current, next, ticket, currentSnapshot, counter, tmp, iters,
                 order, wrapLead>>
  /\ UNCHANGED <<flagVars, guardVars, noLockVars>>

\* unlock(), line 172: currentSnapshot = ++current.
IncrementCurrent(t) ==
  /\ current' = Increment(current)
  /\ wrapLead' = IF Increment(current) < current THEN wrapLead - 1 ELSE wrapLead
  /\ currentSnapshot' = [currentSnapshot EXCEPT ![t] = Increment(current)]
  /\ ticket' = [ticket EXCEPT ![t] = 0]
  /\ order' = Remove(order, t)
  /\ tpc' = [tpc EXCEPT ![t] = "check"]
  /\ UNCHANGED <<next, counter, tmp, iters>>
  /\ UNCHANGED <<flagVars, guardVars, noLockVars>>

\* The holder calls unlock().
TicketUnlock(t) ==
  /\ tpc[t] = "cs"
  /\ IncrementCurrent(t)

\* unlock(), line 173: read next and decide whether to wake.
TicketUnlockCheck(t) ==
  /\ tpc[t] = "check"
  /\ tpc' = [tpc EXCEPT ![t] =
       IF ShouldNotify(next, currentSnapshot[t]) THEN "notify" ELSE "idle"]
  /\ currentSnapshot' = [currentSnapshot EXCEPT ![t] = 0]
  /\ UNCHANGED <<current, next, ticket, counter, tmp, iters, order, wrapLead>>
  /\ UNCHANGED <<flagVars, guardVars, noLockVars>>

\* unlock(), line 175: current.notify_all().
TicketNotify(t) ==
  /\ tpc[t] = "notify"
  /\ tpc' = [TicketNotifyAll(tpc) EXCEPT ![t] = "idle"]
  /\ UNCHANGED <<current, next, ticket, currentSnapshot, counter, tmp, iters,
                 order, wrapLead>>
  /\ UNCHANGED <<flagVars, guardVars, noLockVars>>

\* The stress scenario: a thread with increments left to do calls lock() ...
StressLock(t) ==
  /\ iters[t] < Iterations
  /\ TakeTicket(t)

\* ... reads the shared counter inside the critical section ...
CsRead(t) ==
  /\ tpc[t] = "cs"
  /\ tmp' = [tmp EXCEPT ![t] = counter]
  /\ tpc' = [tpc EXCEPT ![t] = "cs_write"]
  /\ UNCHANGED <<current, next, ticket, currentSnapshot, counter, iters, order,
                 wrapLead>>
  /\ UNCHANGED <<flagVars, guardVars, noLockVars>>

\* ... writes it back incremented ...
CsWrite(t) ==
  /\ tpc[t] = "cs_write"
  /\ counter' = tmp[t] + 1
  /\ tmp' = [tmp EXCEPT ![t] = 0]
  /\ iters' = [iters EXCEPT ![t] = @ + 1]
  /\ tpc' = [tpc EXCEPT ![t] = "unlock"]
  /\ UNCHANGED <<current, next, ticket, currentSnapshot, order, wrapLead>>
  /\ UNCHANGED <<flagVars, guardVars, noLockVars>>

\* ... and calls unlock().
StressUnlock(t) ==
  /\ tpc[t] = "unlock"
  /\ IncrementCurrent(t)

\* A TicketLock before its first use: both counters are zero.
InitTicket ==
  /\ current = 0
  /\ next = 0
  /\ tpc = [t \in Threads |-> "idle"]
  /\ ticket = [t \in Threads |-> 0]
  /\ currentSnapshot = [t \in Threads |-> 0]
  /\ counter = 0
  /\ tmp = [t \in Threads |-> 0]
  /\ iters = [t \in Threads |-> 0]
  /\ order = <<>>
  /\ wrapLead = 0

\* ------------------------------------------------------------ LockGuard
\* One thread owns every guard; one other thread uses the wrapped FlagLock
\* directly, with lock() and unlock().
GuardThread == CHOOSE t \in Threads : \A u \in Threads : t <= u
Contenders == {t \in Threads : t = GuardThread + 1}

NoCall == <<"none", 0>>

\* The guard thread is between guard operations.
GuardReady ==
  /\ inCall = NoCall
  /\ pc[GuardThread] \in {"idle", "failed", "held"}

\* The guard thread does not hold the wrapped lock (the lock is not recursive).
NotHolding == pc[GuardThread] \in {"idle", "failed"}

\* Guards are numbered in the order they are created.
NextUnborn(g) ==
  /\ gstate[g] = "unborn"
  /\ \A h \in Guards : h < g => gstate[h] # "unborn"

MovedFrom(g) == \E d \in Guards : origin[d] = g

\* LockGuard(Lock &), lines 248-252: set the fields, then call lock().
GuardConstruct(g) ==
  /\ NextUnborn(g)
  /\ GuardReady
  /\ NotHolding
  /\ gstate' = [gstate EXCEPT ![g] = "live"]
  /\ wrappedLock' = [wrappedLock EXCEPT ![g] = "lock"]
  /\ isOwned' = [isOwned EXCEPT ![g] = TRUE]
  /\ inCall' = <<"ctor", g>>
  /\ lock(GuardThread)
  /\ UNCHANGED <<origin, inherited, acquisitions, unlocks, dtorUnlocks>>
  /\ UNCHANGED <<ticketVars, noLockVars>>

\* A move that copies the source's fields and leaves its flag set.
GuardMoveKeepsFlag(src, dst) ==
  /\ gstate[src] = "live"
  /\ NextUnborn(dst)
  /\ GuardReady
  /\ gstate' = [gstate EXCEPT ![dst] = "live"]
  /\ wrappedLock' = [wrappedLock EXCEPT ![dst] = wrappedLock[src], ![src] = "null"]
  /\ isOwned' = [isOwned EXCEPT ![dst] = isOwned[src]]
  /\ origin' = [origin EXCEPT ![dst] = src]
  /\ inherited' = [inherited EXCEPT ![dst] = isOwned[src]]
  /\ UNCHANGED <<inCall, acquisitions, unlocks, dtorUnlocks>>
  /\ UNCHANGED <<flagVars, ticketVars, noLockVars>>

\* LockGuard(LockGuard &&), lines 255-260.
GuardMove(src, dst) ==
  /\ gstate[src] = "live"
  /\ NextUnborn(dst)
  /\ GuardReady
  /\ gstate' = [gstate EXCEPT ![dst] = "live"]
  /\ wrappedLock' = [wrappedLock EXCEPT ![dst] = wrappedLock[src], ![src] = "null"]
  /\ isOwned' = [isOwned EXCEPT ![dst] = isOwned[src], ![src] = FALSE]
  /\ origin' = [origin EXCEPT ![dst] = src]
  /\ inherited' = [inherited EXCEPT ![dst] = isOwned[src]]
  /\ UNCHANGED <<inCall, acquisitions, unlocks, dtorUnlocks>>
  /\ UNCHANGED <<flagVars, ticketVars, noLockVars>>

\* LockGuard::lock(), lines 265-268, called as documented: on a guard that
\* references a lock and does not own it.
GuardLock(g) ==
  /\ gstate[g] = "live"
  /\ wrappedLock[g] = "lock"
  /\ ~isOwned[g]
  /\ GuardReady
  /\ NotHolding
  /\ acquisitions[g] < MaxAcquires
  /\ inCall' = <<"lock", g>>
  /\ lock(GuardThread)
  /\ UNCHANGED <<gstate, wrappedLock, isOwned, origin, inherited, acquisitions,
                 unlocks, dtorUnlocks>>
  /\ UNCHANGED <<ticketVars, noLockVars>>

\* LockGuard::try_lock(Timeout *), lines 288-291, with any budget.
GuardTryLock(g) ==
  /\ gstate[g] = "live"
  /\ wrappedLock[g] = "lock"
  /\ ~isOwned[g]
  /\ GuardReady
  /\ NotHolding
  /\ acquisitions[g] < MaxAcquires
  /\ inCall' = <<"try_lock", g>>
  /\ \E ticks \in 0..MaxTicks : try_lock(GuardThread, ticks, "try_lock_timeout")
  /\ UNCHANGED <<gstate, wrappedLock, isOwned, origin, inherited, acquisitions,
                 unlocks, dtorUnlocks>>
  /\ UNCHANGED <<ticketVars, noLockVars>>

\* A return that sets the flag whatever the wrapped lock's call returned.
GuardReturnAlwaysOwns(g) ==
  /\ inCall[2] = g
  /\ inCall[1] \in {"ctor", "lock", "try_lock"}
  /\ result[GuardThread] \in {"true", "false"}
  /\ isOwned' = [isOwned EXCEPT ![g] = TRUE]
  /\ acquisitions' = [acquisitions EXCEPT ![g] =
       IF result[GuardThread] = "true" THEN @ + 1 ELSE @]
  /\ inCall' = NoCall
  /\ UNCHANGED <<gstate, wrappedLock, origin, inherited, unlocks, dtorUnlocks>>
  /\ UNCHANGED <<flagVars, ticketVars, noLockVars>>

\* The wrapped lock's call has returned: the constructor ends (line 252),
\* lock() sets the flag (line 269), try_lock stores the result (lines 291-292).
GuardReturn(g) ==
  /\ inCall[2] = g
  /\ inCall[1] \in {"ctor", "lock", "try_lock"}
  /\ result[GuardThread] \in {"true", "false"}
  /\ isOwned' = [isOwned EXCEPT ![g] =
       IF inCall[1] = "try_lock" THEN result[GuardThread] = "true" ELSE TRUE]
  /\ acquisitions' = [acquisitions EXCEPT ![g] =
       IF result[GuardThread] = "true" THEN @ + 1 ELSE @]
  /\ inCall' = NoCall
  /\ UNCHANGED <<gstate, wrappedLock, origin, inherited, unlocks, dtorUnlocks>>
  /\ UNCHANGED <<flagVars, ticketVars, noLockVars>>

\* LockGuard::unlock(), lines 276-281, called as documented: on a guard that
\* owns its lock.
GuardUnlock(g) ==
  /\ gstate[g] = "live"
  /\ isOwned[g]
  /\ GuardReady
  /\ unlock(GuardThread)
  /\ isOwned' = [isOwned EXCEPT ![g] = FALSE]
  /\ unlocks' = [unlocks EXCEPT ![g] = @ + 1]
  /\ UNCHANGED <<gstate, wrappedLock, inCall, origin, inherited, acquisitions,
                 dtorUnlocks>>
  /\ UNCHANGED <<ticketVars, noLockVars>>

\* A destructor that never releases.
GuardDestroyNoRelease(g) ==
  /\ gstate[g] = "live"
  /\ GuardReady
  /\ gstate' = [gstate EXCEPT ![g] = "dead"]
  /\ UNCHANGED <<unlocks, dtorUnlocks, wrappedLock, isOwned, inCall, origin,
                 inherited, acquisitions>>
  /\ UNCHANGED <<flagVars, ticketVars, noLockVars>>

\* ~LockGuard(), lines 296-302.
GuardDestroy(g) ==
  /\ gstate[g] = "live"
  /\ GuardReady
  /\ gstate' = [gstate EXCEPT ![g] = "dead"]
  /\ IF isOwned[g]
       THEN /\ unlock(GuardThread)
            /\ unlocks' = [unlocks EXCEPT ![g] = @ + 1]
            /\ dtorUnlocks' = [dtorUnlocks EXCEPT ![g] = @ + 1]
       ELSE UNCHANGED <<flagVars, unlocks, dtorUnlocks>>
  /\ UNCHANGED <<wrappedLock, isOwned, inCall, origin, inherited, acquisitions>>
  /\ UNCHANGED <<ticketVars, noLockVars>>

InitGuard ==
  /\ gstate = [g \in Guards |-> "unborn"]
  /\ wrappedLock = [g \in Guards |-> "null"]
  /\ isOwned = [g \in Guards |-> FALSE]
  /\ inCall = <<"none", 0>>
  /\ origin = [g \in Guards |-> 0]
  /\ inherited = [g \in Guards |-> FALSE]
  /\ acquisitions = [g \in Guards |-> 0]
  /\ unlocks = [g \in Guards |-> 0]
  /\ dtorUnlocks = [g \in Guards |-> 0]

\* --------------------------------------------------------------- NoLock
\* The budgets a caller can put in the cursor it passes.
Budgets == 0..UnlimitedTimeout

\* A try_lock that succeeds only while no other thread is inside.
NoLockTryLockExclusive(t, ticks) ==
  /\ inside' = [inside EXCEPT ![t] = \A u \in Threads \ {t} : ~inside[u]]
  /\ nop' = [nop EXCEPT ![t] = "try_lock_timeout"]
  /\ nbudget' = [nbudget EXCEPT ![t] = ticks]
  /\ nresult' = [nresult EXCEPT ![t] =
       IF \A u \in Threads \ {t} : ~inside[u] THEN "true" ELSE "false"]
  /\ UNCHANGED <<flagVars, ticketVars, guardVars>>

\* NoLock::try_lock(Timeout *), lines 191-194: return true.
NoLockTryLockTimeout(t, ticks) ==
  /\ inside' = [inside EXCEPT ![t] = TRUE]
  /\ nop' = [nop EXCEPT ![t] = "try_lock_timeout"]
  /\ nbudget' = [nbudget EXCEPT ![t] = ticks]
  /\ nresult' = [nresult EXCEPT ![t] = "true"]
  /\ UNCHANGED <<flagVars, ticketVars, guardVars>>

\* NoLock::try_lock(), lines 199-202: return true.
NoLockTryLock(t) ==
  /\ inside' = [inside EXCEPT ![t] = TRUE]
  /\ nop' = [nop EXCEPT ![t] = "try_lock"]
  /\ nbudget' = [nbudget EXCEPT ![t] = 0]
  /\ nresult' = [nresult EXCEPT ![t] = "true"]
  /\ UNCHANGED <<flagVars, ticketVars, guardVars>>

\* NoLock::lock(), line 207: empty body.
NoLockLock(t) ==
  /\ inside' = [inside EXCEPT ![t] = TRUE]
  /\ nop' = [nop EXCEPT ![t] = "lock"]
  /\ nbudget' = [nbudget EXCEPT ![t] = 0]
  /\ nresult' = [nresult EXCEPT ![t] = "void"]
  /\ UNCHANGED <<flagVars, ticketVars, guardVars>>

\* NoLock::unlock(), line 212: empty body.
NoLockUnlock(t) ==
  /\ inside' = [inside EXCEPT ![t] = FALSE]
  /\ nop' = [nop EXCEPT ![t] = "unlock"]
  /\ nbudget' = [nbudget EXCEPT ![t] = 0]
  /\ nresult' = [nresult EXCEPT ![t] = "void"]
  /\ UNCHANGED <<flagVars, ticketVars, guardVars>>

InitNoLock ==
  /\ inside = [t \in Threads |-> FALSE]
  /\ nop = [t \in Threads |-> "none"]
  /\ nbudget = [t \in Threads |-> 0]
  /\ nresult = [t \in Threads |-> "none"]

\* ------------------------------------------------------- specifications
\* FlagLock used directly by every thread.
Init == InitFlag /\ InitTicket /\ InitGuard /\ InitNoLock

Next ==
  \E t \in Threads :
    \/ Lock(t)
    \/ TryLock(t)
    \/ TryLockTimeout(t)
    \/ LoopHead(t)
    \/ Upgrade(t)
    \/ WaitCall(t)
    \/ WaitReturn(t)
    \/ WaitTimeout(t)
    \/ Acquire(t)
    \/ Unlock(t)
    \/ Notify(t)

Spec == Init /\ [][Next]_vars

\* TicketLock: every thread calls lock() and unlock() in turn, for ever.
NextTicket ==
  \E t \in Threads :
    \/ TakeTicket(t)
    \/ ReadCurrent(t)
    \/ TicketWait(t)
    \/ TicketUnlock(t)
    \/ TicketUnlockCheck(t)
    \/ TicketNotify(t)

SpecTicket == Init /\ [][NextTicket]_vars

\* The stress scenario: each thread increments the shared counter Iterations
\* times under the TicketLock, every thread scheduled fairly.
StressThread(t) ==
  \/ StressLock(t)
  \/ ReadCurrent(t)
  \/ TicketWait(t)
  \/ CsRead(t)
  \/ CsWrite(t)
  \/ StressUnlock(t)
  \/ TicketUnlockCheck(t)
  \/ TicketNotify(t)

NextStress == \E t \in Threads : StressThread(t)

SpecStress ==
  /\ Init
  /\ [][NextStress]_vars
  /\ \A t \in Threads : WF_vars(StressThread(t))

\* Guards over a FlagLock that other threads contend for.
GuardStep ==
  \/ \E g \in Guards :
       \/ GuardConstruct(g)
       \/ GuardLock(g)
       \/ GuardTryLock(g)
       \/ GuardReturn(g)
       \/ GuardUnlock(g)
       \/ GuardDestroy(g)
  \/ \E src, dst \in Guards : GuardMove(src, dst)

ContenderStep ==
  \E t \in Contenders :
    \/ Lock(t)
    \/ Unlock(t)

LockStep ==
  \E t \in Threads :
    \/ LoopHead(t)
    \/ Upgrade(t)
    \/ WaitCall(t)
    \/ WaitReturn(t)
    \/ WaitTimeout(t)
    \/ Acquire(t)
    \/ Notify(t)

NextGuard == GuardStep \/ ContenderStep \/ LockStep

SpecGuard == Init /\ [][NextGuard]_vars

\* NoLock: every thread calls any member at any time.
NextNoLock ==
  \E t \in Threads :
    \/ \E ticks \in Budgets : NoLockTryLockTimeout(t, ticks)
    \/ NoLockTryLock(t)
    \/ NoLockLock(t)
    \/ NoLockUnlock(t)

SpecNoLock == Init /\ [][NextNoLock]_vars

\* ------------------------------------------------------------- FlagLock claims
\* C1: at most one thread is between a successful acquire and its unlock.
Holders == {t \in Threads : pc[t] = "held"}

FlagMutualExclusion == Cardinality(Holders) <= 1

\* One thread holds the lock while the two others are inside lock(), one
\* blocked in wait and one about to try its acquire.
FlagMutualExclusionWitness ==
  \E t, u, w \in Threads :
    pc[t] = "held" /\ pc[u] = "blocked" /\ pc[w] = "acquire"

\* C2: no thread stays blocked in lock()'s wait while the word is Unlocked, or
\* Locked by a holder whose unlock will not wake, with no other thread inside
\* a call that could still upgrade the word or issue a wake.
Quiet(t) == pc[t] \in {"idle", "failed", "held", "blocked"}

LostWake(t) ==
  /\ pc[t] = "blocked"
  /\ op[t] = "lock"
  /\ flag \in {Unlocked, Locked}
  /\ \A u \in Threads \ {t} : Quiet(u)

FlagNoLostWake == \A t \in Threads : ~LostWake(t)

\* C7: a try_lock() probe returns true exactly when its compare-and-set found
\* the word Unlocked, and never reaches the wait primitive.
FlagProbe ==
  \A t \in Threads :
    op[t] = "try_lock" =>
      /\ pc[t] \in {"loop", "held", "failed"}
      /\ ~waited[t]
      /\ result[t] # "pending" => (result[t] = "true" <=> first[t] = Unlocked)

\* One probe has returned false on a word with waiters and another true.
FlagProbeWitness ==
  \E t, u \in Threads :
    /\ op[t] = "try_lock" /\ result[t] = "false" /\ first[t] = LockedWithWaiters
    /\ op[u] = "try_lock" /\ result[u] = "true"

\* C8: unlock() by the holder leaves the word Unlocked, and a try_lock() made
\* while no thread holds the lock returns true.
FlagRoundTrip ==
  [][\A t \in Threads :
       /\ Unlock(t) => flag' = Unlocked
       /\ (TryLock(t) /\ Holders = {}) => (pc'[t] = "held" /\ result'[t] = "true")]_vars

\* A holding as LockedWithWaiters has ended (its notify is still due) and a
\* probe made after it has returned true.
FlagRoundTripWitness ==
  \E t, u \in Threads :
    /\ pc[t] = "notify"
    /\ op[u] = "try_lock" /\ result[u] = "true" /\ pc[u] = "held"

\* ----------------------------------------------------------- TicketLock claims
\* C3: at most one thread is between the return of lock() and its unlock().
InCriticalSection == {t \in Threads : tpc[t] \in {"cs", "cs_write", "unlock"}}

TicketMutualExclusion == Cardinality(InCriticalSection) <= 1

\* One thread is in its critical section while another is blocked in lock().
TicketMutualExclusionWitness ==
  \E t, u \in Threads : tpc[t] = "cs" /\ tpc[u] = "blocked"

\* C4: the thread in the critical section is always the one whose ticket is the
\* oldest not yet released, so threads enter in the order they took tickets.
TicketFifo ==
  \A t \in InCriticalSection : Len(order) > 0 /\ Head(order) = t

\* Every thread holds a ticket and one of them has entered after an earlier
\* holder left: the others were woken together and re-read current.
TicketFifoWitness ==
  \E t, u \in Threads :
    /\ tpc[t] = "cs"
    /\ Len(order) = NThreads
    /\ current > 0
    /\ u # t /\ tpc[u] = "read"

\* C9 as stated: next >= current in every reachable state.
TicketNextAtLeastCurrent == next >= current

\* C9 amended: next - current, taken modulo the counter's width, is the number
\* of tickets taken and not yet released; next >= current holds while both
\* counters have wrapped equally often, and next < current from the moment
\* next wraps until current wraps too.
TicketCounterInvariant ==
  /\ (next - current + Modulus) % Modulus = Len(order)
  /\ Len(order) <= NThreads
  /\ wrapLead = 0 => next >= current
  /\ wrapLead # 0 => wrapLead = 1 /\ next < current

\* next has wrapped, current has not, and two tickets are outstanding.
TicketCounterWitness ==
  /\ wrapLead = 1
  /\ next < current
  /\ Len(order) >= 2

\* C10: a finished run of the stress scenario has counted every increment,
\* and every fair run that takes fewer tickets than the counters can tell
\* apart (80,000 against 2^32 in the scenario as specified) finishes.
AllDone == \A t \in Threads : tpc[t] = "idle" /\ iters[t] = Iterations

StressNoLostUpdates ==
  /\ [](AllDone => counter = NThreads * Iterations)
  /\ NThreads * Iterations < Modulus => <>AllDone

\* The scenario has finished with every increment counted.
StressWitness == AllDone /\ counter = NThreads * Iterations

\* ------------------------------------------------------------ LockGuard claims
RECURSIVE SumTo(_, _)
SumTo(f, n) == IF n = 0 THEN 0 ELSE f[n] + SumTo(f, n - 1)

Total(f) == SumTo(f, NGuards)

OwedByFlag(g) == IF isOwned[g] THEN 1 ELSE 0

\* C5: a guard's destructor calls unlock() exactly when its flag is set; a
\* guard that took no part in a move has made one unlock() call per successful
\* acquisition once it is destroyed; and once no guard is alive the guard
\* thread does not hold the lock and every acquisition has been released once.
GuardReleases ==
  /\ \A g \in Guards :
       /\ gstate[g] = "dead" => dtorUnlocks[g] = OwedByFlag(g)
       /\ (origin[g] = 0 /\ ~MovedFrom(g)) =>
            /\ gstate[g] = "dead" => unlocks[g] = acquisitions[g]
            /\ (gstate[g] = "live" /\ inCall[2] # g) =>
                 acquisitions[g] - unlocks[g] = OwedByFlag(g)
  /\ Total(unlocks) <= Total(acquisitions)
  /\ (\A g \in Guards : gstate[g] # "live") =>
       /\ pc[GuardThread] # "held"
       /\ Total(unlocks) = Total(acquisitions)

\* A guard that was unlocked and locked again by hand has been destroyed while
\* owning: two acquisitions, two unlock() calls, one of them the destructor's.
GuardReleasesWitness ==
  \E g \in Guards :
    /\ gstate[g] = "dead"
    /\ origin[g] = 0 /\ ~MovedFrom(g)
    /\ acquisitions[g] = 2 /\ unlocks[g] = 2 /\ dtorUnlocks[g] = 1

\* C6: a moved-from guard references no lock, has its flag cleared and its
\* destructor unlocks nothing; a move-constructed guard not used since has
\* the flag its source had, and its destructor unlocks once if the source
\* owned the lock and not at all otherwise.
GuardMoveTransfers ==
  \A g \in Guards :
    /\ MovedFrom(g) =>
         wrappedLock[g] = "null" /\ ~isOwned[g] /\ dtorUnlocks[g] = 0
    /\ (origin[g] # 0 /\ ~MovedFrom(g) /\ acquisitions[g] = 0
          /\ unlocks[g] = dtorUnlocks[g]) =>
         /\ isOwned[g] = inherited[g]
         /\ gstate[g] = "dead" =>
              dtorUnlocks[g] = (IF inherited[g] THEN 1 ELSE 0)

\* A chain of two moves of an owning guard, all three guards destroyed: only
\* the last one's destructor unlocked.
GuardMoveTransfersWitness ==
  \E a, b, c \in Guards :
    /\ origin[b] = a /\ origin[c] = b /\ origin[a] = 0
    /\ \A g \in {a, b, c} : gstate[g] = "dead"
    /\ inherited[b] /\ inherited[c]
    /\ dtorUnlocks[a] = 0 /\ dtorUnlocks[b] = 0 /\ dtorUnlocks[c] = 1

\* ------------------------------------------------- FlagLock contract claims
\* C11: a lock() call keeps its unlimited budget, never reaches return false,
\* and has returned only with the caller holding a word that is Locked or
\* LockedWithWaiters; the step that ends the call is the caller's own
\* compare-and-set of the word from Unlocked.
LockCannotFail ==
  /\ [](\A t \in Threads :
         op[t] = "lock" =>
           /\ remaining[t] = UnlimitedTimeout
           /\ result[t] \in {"pending", "true"}
           /\ pc[t] # "failed"
           /\ result[t] = "true" =>
                pc[t] = "held" /\ flag \in {Locked, LockedWithWaiters})
  /\ [][\A t \in Threads :
         (op'[t] = "lock" /\ result'[t] = "true" /\ result[t] # "true") =>
           /\ flag = Unlocked
           /\ flag' \in {Locked, LockedWithWaiters}
           /\ pc'[t] = "held"]_vars

\* A lock() call that blocked in wait, was woken, and then acquired.
LockCannotFailWitness ==
  \E t \in Threads :
    /\ op[t] = "lock" /\ waited[t] /\ result[t] = "true"
    /\ pc[t] = "held" /\ flag = LockedWithWaiters

\* C12: a call returns false only from the loop check, with its budget
\* exhausted and after its last compare-and-set from Unlocked failed; it
\* returns true exactly by a compare-and-set that found the word Unlocked; and
\* with the budget exhausted the loop check leads to return false without a
\* further upgrade or wait.
TimedAcquireOutcome ==
  /\ [](\A t \in Threads :
         /\ result[t] = "true" <=> pc[t] = "held"
         /\ pc[t] \in {"upgrade", "wait", "blocked", "woken"} => remaining[t] > 0
         /\ result[t] = "false" =>
              pc[t] = "failed" /\ remaining[t] <= 0 /\ old[t] # Unlocked)
  /\ [][\A t \in Threads :
         /\ (result'[t] = "false" /\ result[t] # "false") =>
              /\ pc[t] = "loop" /\ remaining[t] <= 0 /\ old[t] # Unlocked
              /\ flag' = flag
         /\ (result'[t] = "true" /\ result[t] # "true") =>
              flag = Unlocked /\ flag' # Unlocked /\ pc'[t] = "held"
         /\ (pc[t] = "loop" /\ remaining[t] <= 0 /\ pc'[t] # pc[t]) =>
              /\ pc'[t] = "failed" /\ result'[t] = "false"
              /\ waited'[t] = waited[t]]_vars

\* A timed call has waited, run out of budget and returned false, while
\* another timed call acquired inside the loop after its own wait.
TimedAcquireOutcomeWitness ==
  \E t, u \in Threads :
    /\ op[t] = "try_lock_timeout" /\ result[t] = "false" /\ waited[t]
    /\ op[u] = "try_lock_timeout" /\ result[u] = "true" /\ waited[u]

\* ------------------------------------------------- LockGuard contract claims
\* Holdings of the wrapped lock a guard acquired or received by a move, less
\* those it released or passed on by a move.
Received(g) == IF origin[g] # 0 /\ inherited[g] THEN 1 ELSE 0

PassedOn(g) == IF \E d \in Guards : origin[d] = g /\ inherited[d] THEN 1 ELSE 0

HeldVia(g) == acquisitions[g] + Received(g) - unlocks[g] - PassedOn(g)

OwningGuards == {g \in Guards : gstate[g] = "live" /\ isOwned[g]}

\* C13: between guard operations a live guard's flag is set exactly when the
\* guard thread holds the wrapped lock through that guard, which at most one
\* guard does; try_lock stores the wrapped lock's result in the flag; and the
\* destructor of a guard whose flag is clear leaves the lock alone.
GuardFlagInvariant ==
  /\ [](/\ \A g \in Guards :
            /\ HeldVia(g) \in {0, 1}
            /\ (gstate[g] = "live" /\ inCall[2] # g) =>
                 (isOwned[g] <=> HeldVia(g) = 1)
            /\ gstate[g] = "dead" => HeldVia(g) = 0
         /\ inCall = NoCall =>
              /\ Cardinality(OwningGuards) <= 1
              /\ pc[GuardThread] = "held" <=> OwningGuards # {})
  /\ [][\A g \in Guards :
         /\ (inCall = <<"try_lock", g>> /\ inCall' = NoCall) =>
              /\ isOwned'[g] <=> result[GuardThread] = "true"
              /\ isOwned'[g] <=> pc'[GuardThread] = "held"
         /\ (gstate[g] = "live" /\ gstate'[g] = "dead" /\ ~isOwned[g]) =>
              flag' = flag /\ unlocks' = unlocks]_vars

\* A guard whose try_lock failed against the contender has been destroyed
\* without unlocking, the contender still holding the lock.
GuardFlagWitness ==
  \E g \in Guards, c \in Contenders :
    /\ gstate[g] = "dead" /\ ~isOwned[g] /\ dtorUnlocks[g] = 0
    /\ acquisitions[g] = 1 /\ unlocks[g] = 1
    /\ inCall = NoCall
    /\ op[GuardThread] = "try_lock_timeout" /\ result[GuardThread] = "false"
    /\ pc[c] = "held"

\* ------------------------------------------------------------ NoLock claims
\* C14: every NoLock try_lock has returned true whatever budget it was given;
\* every member can be called and returns in any state, whoever is inside;
\* and no call changes the state of any lock.
NoLockNeverExcludes ==
  /\ [](\A t \in Threads :
         /\ nop[t] \in {"try_lock", "try_lock_timeout"} => nresult[t] = "true"
         /\ nop[t] \in {"lock", "unlock"} => nresult[t] = "void"
         /\ ENABLED NoLockLock(t)
         /\ ENABLED NoLockTryLock(t)
         /\ ENABLED NoLockUnlock(t)
         /\ \A ticks \in Budgets : ENABLED NoLockTryLockTimeout(t, ticks))
  /\ [][UNCHANGED <<flagVars, ticketVars, guardVars>>]_vars

\* Every thread is inside at once, one let in by try_lock with no budget and
\* another by try_lock with an unlimited one.
NoLockWitness ==
  /\ \A t \in Threads : inside[t]
  /\ \E t, u \in Threads :
       /\ nop[t] = "try_lock_timeout" /\ nbudget[t] = 0 /\ nresult[t] = "true"
       /\ nop[u] = "try_lock_timeout" /\ nbudget[u] = UnlimitedTimeout
       /\ nresult[u] = "true"

\* ------------------------------------------------- TicketLock behaviour claims
\* C15: when unlock() reads next to decide whether to wake, and some thread
\* holds a ticket that has not been released, it goes on to notify_all;
\* for every value of the counters, wrapped or not.
TicketWakeDecision ==
  [][\A t \in Threads :
       (TicketUnlockCheck(t) /\ Len(order) > 0) => tpc'[t] = "notify"]_vars

FlagSlowPathAcquire ==
  /\ [](\A t \in Threads :
         pc[t] = "held" =>
           /\ first[t] # Unlocked => flag = LockedWithWaiters
           /\ flag = Locked => first[t] = Unlocked /\ ~waited[t])
  /\ [][\A t \in Threads :
         /\ (result'[t] = "true" /\ result[t] # "true" /\ first'[t] # Unlocked) =>
              flag = Unlocked /\ flag' = LockedWithWaiters
         /\ (result'[t] = "true" /\ result[t] # "true" /\ first'[t] = Unlocked) =>
              flag = Unlocked /\ flag' = Locked
         /\ (Unlock(t) /\ first[t] # Unlocked) => pc'[t] = "notify"]_vars

\* A thread acquired inside the loop after a wait and holds the word as
\* LockedWithWaiters although no other thread is inside a call.
FlagSlowPathAcquireWitness ==
  \E t \in Threads :
    /\ pc[t] = "held" /\ first[t] = Locked /\ waited[t]
    /\ flag = LockedWithWaiters
    /\ \A u \in Threads \ {t} : pc[u] = "idle"

\* C18: the word is always one of the three values and is Unlocked exactly
\* when no thread holds the lock; a thread at the upgrade step has observed
\* Locked or LockedWithWaiters (the debug assertion of line 72); and an
\* upgrade step changes the word only from Locked to LockedWithWaiters, with
\* a holder present.
FlagWordHolderInvariant ==
  /\ [](/\ flag \in Flag
         /\ flag = Unlocked <=> Holders = {}
         /\ \A t \in Threads :
              pc[t] = "upgrade" => old[t] \in {Locked, LockedWithWaiters})
  /\ [][\A t \in Threads :
         (pc[t] = "upgrade" /\ pc'[t] = "wait" /\ flag' # flag) =>
           /\ flag = Locked /\ flag' = LockedWithWaiters
           /\ old[t] = Locked
           /\ Holders # {} /\ Holders' = Holders]_vars

\* An upgrade found the word already released: its compare-and-set failed,
\* read Unlocked, and left the free word alone.
FlagWordHolderWitness ==
  \E t \in Threads :
    /\ pc[t] = "wait" /\ old[t] = Unlocked
    /\ flag = Unlocked /\ Holders = {}

\* C19: with counters below their wrap point and every thread scheduled
\* fairly, each holder unlocking in the end, a thread that has taken a ticket
\* gets into its critical section, and a blocked waiter whose ticket has
\* come up does not stay blocked.
TicketStarvationFreedom ==
  NThreads * Iterations < Modulus =>
    \A t \in Threads :
      /\ tpc[t] \in {"read", "wait", "blocked"} ~> tpc[t] = "cs"
      /\ (tpc[t] = "blocked" /\ ticket[t] = current) ~> tpc[t] # "blocked"

\* A waiter read current, blocked, and its ticket came up while it slept: the
\* unlocker has incremented current and read next, and its notify_all is due.
TicketStarvationWitness ==
  \E t, u \in Threads :
    /\ tpc[t] = "blocked" /\ ticket[t] = current
    /\ tpc[u] = "notify"

\* C20: a try_lock() that finds the word held writes nothing to it, neither
\* in its failed compare-and-set nor on its way to return false, and touches
\* no other thread; a probe that has not acquired is at the loop check or
\* has returned false.
FlagFailedProbeFrame ==
  /\ [](\A t \in Threads :
         (op[t] = "try_lock" /\ result[t] \in {"pending", "false"}) =>
           pc[t] \in {"loop", "failed"} /\ first[t] # Unlocked)
  /\ [][\A t \in Threads :
         /\ (TryLock(t) /\ flag # Unlocked) =>
              /\ flag' = flag /\ pc'[t] = "loop"
              /\ \A u \in Threads \ {t} : pc'[u] = pc[u]
         /\ (op[t] = "try_lock" /\ pc[t] = "loop" /\ pc'[t] # pc[t]) =>
              /\ flag' = flag
              /\ pc'[t] = "failed" /\ result'[t] = "false"
              /\ \A u \in Threads \ {t} : pc'[u] = pc[u]]_vars

\* A probe of a word that was Locked has returned false; the word is still
\* Locked, its holder still holds it, and no other thread is in a call.
FlagFailedProbeWitness ==
  \E t, u \in Threads :
    /\ op[t] = "try_lock" /\ result[t] = "false" /\ first[t] = Locked
    /\ flag = Locked /\ pc[u] = "held"
    /\ \A w \in Threads \ {t, u} : pc[w] = "idle"

====
